---- MODULE Spec2Model ----
(***************************************************************************)
(* Model of go-ansible-executor/main.go: a NATS worker that turns          *)
(* "db.install" requests into ansible-playbook runs and reports the        *)
(* outcome on "db.install.status".                                         *)
(*                                                                         *)
(* Strings whose characters matter to the code (name, db_type, file paths) *)
(* are sequences of one-character strings; strings of which the code only  *)
(* tests emptiness or passes through are TLA+ strings.                     *)
(*                                                                         *)
(* Library behaviour the code relies on:                                   *)
(*  - nats.go runs the callback of one asynchronous subscription on one    *)
(*    goroutine, one message at a time, in arrival order;                  *)
(*  - Conn.Drain and Subscription.Unsubscribe return without waiting      *)
(*    for a callback that is running;                                      *)
(*  - when main returns the process exits: no other goroutine runs again,  *)
(*    its deferred calls included; child processes are not killed by that; *)
(*  - exec.CommandContext kills the child (SIGKILL) from a watcher         *)
(*    goroutine once the context is done; Wait reports a child that did    *)
(*    not exit with status 0 as exec.ExitError (ExitCode -1 for a child    *)
(*    ended by a signal) and reports the context's error only for a child  *)
(*    that exited with status 0 (Go >= 1.20; earlier releases report nil). *)
(*  - json.Marshal coerces strings to valid UTF-8: a byte that is not part  *)
(*    of a valid character is encoded as U+FFFD.                           *)
(***************************************************************************)
EXTENDS Integers, Sequences, FiniteSets, TLC

(***************************************************************************)
(* Bounds of the model.                                                    *)
(***************************************************************************)
\* messages the bus delivers in one behaviour
MaxMsgs == 2
\* bytes a tool writes to stdout/stderr
MaxOut == 1

\* worker processes of the queue group "db-install-workers"; they are started
\* in the same working directory and so share the relative inventoryDir
Workers == {"w1", "w2"}
\* the worker of a deployment with one service instance
Solo == "w1"
Msgs == 1..MaxMsgs

(***************************************************************************)
(* Constants of main.go (lines 25-37).                                     *)
(***************************************************************************)
inventoryDir == <<"i","n","v","e","n","t","o","r","i","e","s">>
maxOutputBytes == 10000
\* exit codes runPlaybook makes up itself
CodeNotFound == 127
CodeTimeout == 124
CodeOther == 1
\* ProcessState.ExitCode of a child ended by a signal
CodeSignaled == -1

(***************************************************************************)
(* String helpers (package strings, regexp, fmt).                          *)
(***************************************************************************)
Upper == <<"A","B","C","D","E","F","G","H","I","J","K","L","M",
           "N","O","P","Q","R","S","T","U","V","W","X","Y","Z">>
LowerC == <<"a","b","c","d","e","f","g","h","i","j","k","l","m",
            "n","o","p","q","r","s","t","u","v","w","x","y","z">>
Digits == <<"0","1","2","3","4","5","6","7","8","9">>

Range(s) == {s[i] : i \in DOMAIN s}

ToLowerChar(c) ==
    IF c \in Range(Upper)
    THEN LowerC[CHOOSE i \in DOMAIN Upper : Upper[i] = c]
    ELSE c

ToLower(s) == [i \in DOMAIN s |-> ToLowerChar(s[i])]

IsSpace(c) == c \in {" ", "\t", "\n", "\r"}

RECURSIVE TrimLeft(_)
TrimLeft(s) ==
    IF s # <<>> /\ IsSpace(Head(s)) THEN TrimLeft(Tail(s)) ELSE s

RECURSIVE TrimRight(_)
TrimRight(s) ==
    IF s # <<>> /\ IsSpace(s[Len(s)])
    THEN TrimRight(SubSeq(s, 1, Len(s) - 1))
    ELSE s

TrimSpace(s) == TrimRight(TrimLeft(s))

ReplaceAll(s, old, new) == [i \in DOMAIN s |-> IF s[i] = old THEN new ELSE s[i]]

HasPrefix(s, p) == Len(s) >= Len(p) /\ SubSeq(s, 1, Len(p)) = p

EqualFold(a, b) == ToLower(a) = ToLower(b)

\* regexp `[^a-z0-9_]+` replaced by "": only a-z, 0-9 and _ are kept
KeepChar(c) == c \in Range(LowerC) \cup Range(Digits) \cup {"_"}

StripOthers(s) == SelectSeq(s, KeepChar)

RECURSIVE FormatNat(_)
FormatNat(n) ==
    IF n < 10 THEN <<Digits[n + 1]>>
    ELSE FormatNat(n \div 10) \o <<Digits[(n % 10) + 1]>>

\* fmt's %d
FormatInt(n) == IF n < 0 THEN <<"-">> \o FormatNat(-n) ELSE FormatNat(n)

(***************************************************************************)
(* Requests.                                                               *)
(***************************************************************************)
PostgreSQL == <<"p","o","s","t","g","r","e","s","q","l">>
Postgres == <<"p","o","s","t","g","r","e","s">>
Pg == <<"p","g">>

\* the literals netip.ParseAddr accepts among those the model sends
ParseAddrOk(ip) == ip \in {"10.0.0.5", "10.0.0.6", "::1"}

Req(id, name, ip, dbType) ==
    [json |-> TRUE, ID |-> id, Name |-> name, IPAddress |-> ip,
     VMUser |-> "root", VMPassword |-> "x", DBType |-> dbType,
     DBUser |-> "a", DBPassword |-> "b", DBName |-> "c"]

\* what json.Unmarshal leaves in req when it fails; handleMessage does not use it
NoReq ==
    [json |-> FALSE, ID |-> 0, Name |-> <<>>, IPAddress |-> "",
     VMUser |-> "", VMPassword |-> "", DBType |-> <<>>,
     DBUser |-> "", DBPassword |-> "", DBName |-> ""]

NameDBP == <<"D","B"," ","P">>
NameDbP == <<"d","b","-","p">>

\* message payloads the bus delivers: undecodable bytes, a request with a bad
\* address, a valid request, and two valid requests with another id, one whose
\* name differs and sanitizes to the same string and one with the same name
Payloads ==
    { NoReq,
      Req(1, NameDBP, "not-an-ip", PostgreSQL),
      Req(1, NameDBP, "10.0.0.5", PostgreSQL),
      Req(2, NameDbP, "10.0.0.6", <<"P","o","s","t","g","r","e","S","Q","L">>),
      Req(2, NameDBP, "10.0.0.6", PostgreSQL) }

\* the payloads delivered to a worker that runs alone: undecodable bytes, a
\* request with a bad address and a valid request (twice the same payload is
\* a duplicate delivery)
SoloPayloads ==
    { NoReq,
      Req(1, NameDBP, "not-an-ip", PostgreSQL),
      Req(1, NameDBP, "10.0.0.5", PostgreSQL) }

(***************************************************************************)
(* validateRequest, main.go:185-206.  "nil" is no error.                   *)
(***************************************************************************)
\* the name is checked before the id
validateRequestSwapped(r) ==
    IF TrimSpace(r.Name) = <<>> THEN "missing name"
    ELSE IF r.ID = 0 THEN "missing id"
    ELSE IF ~ParseAddrOk(r.IPAddress) THEN "invalid ip_address"
    ELSE IF r.VMUser = "" \/ r.VMPassword = "" THEN "missing vm_user or vm_password"
    ELSE IF r.DBName = "" \/ r.DBUser = "" \/ r.DBPassword = ""
         THEN "missing db creds or db_name"
    ELSE IF ~EqualFold(r.DBType, PostgreSQL) THEN "unsupported db_type (validate)"
    ELSE "nil"

validateRequest(r) ==
    IF r.ID = 0 THEN "missing id"
    ELSE IF TrimSpace(r.Name) = <<>> THEN "missing name"
    ELSE IF ~ParseAddrOk(r.IPAddress) THEN "invalid ip_address"
    ELSE IF r.VMUser = "" \/ r.VMPassword = "" THEN "missing vm_user or vm_password"
    ELSE IF r.DBName = "" \/ r.DBUser = "" \/ r.DBPassword = ""
         THEN "missing db creds or db_name"
    ELSE IF ~EqualFold(r.DBType, PostgreSQL) THEN "unsupported db_type (validate)"
    ELSE "nil"

(***************************************************************************)
(* sanitizeName, main.go:230-243.                                          *)
(***************************************************************************)
DbPrefix == <<"d","b","_">>

sanitizeName(name) ==
    LET s1 == ToLower(TrimSpace(name))
        s2 == ReplaceAll(s1, " ", "_")
        s3 == ReplaceAll(s2, "-", "_")
        s4 == StripOthers(s3)
    IN  IF HasPrefix(s4, DbPrefix) THEN s4 ELSE DbPrefix \o s4

(***************************************************************************)
(* writeInventory's file name and line, main.go:213-221.                   *)
(***************************************************************************)
\* a file name that leaves the id out
InventoryFilenameNoID(r) ==
    <<"v","m","_">> \o sanitizeName(r.Name) \o <<".","i","n","i">>

InventoryFilename(r) ==
    <<"v","m","_">> \o FormatInt(r.ID) \o <<"_">> \o sanitizeName(r.Name)
        \o <<".","i","n","i">>

\* filepath.Join(inventoryDir, filename)
InventoryPath(r) == inventoryDir \o <<"/">> \o InventoryFilename(r)

InventoryLine(r) ==
    <<r.IPAddress, r.VMUser, r.VMPassword, r.DBName, r.DBUser, r.DBPassword>>

(***************************************************************************)
(* selectPlaybook, main.go:245-257.  [path, err]                           *)
(***************************************************************************)
PlaybookPostgres == "playbooks/postgresql.yml"

selectPlaybook(dbType) ==
    IF ToLower(TrimSpace(dbType)) \in {PostgreSQL, Postgres, Pg}
    THEN [path |-> PlaybookPostgres, err |-> "nil"]
    ELSE [path |-> "", err |-> "unsupported db_type"]

(***************************************************************************)
(* truncate, main.go:319-324.                                              *)
(***************************************************************************)
TruncMarker ==
    <<"\n",".",".",".","[","t","r","u","n","c","a","t","e","d","]",".",".",".">>

truncate(s, max) == IF Len(s) <= max THEN s ELSE SubSeq(s, 1, max) \o TruncMarker

(***************************************************************************)
(* Tool output and json.Marshal of it, main.go:177 and 294.                *)
(* An output is a sequence of bytes: "o" is an ASCII byte, LeadByte and    *)
(* ContByte are the two bytes (0xC3 0xA9) of a two-byte UTF-8 character.   *)
(* json.Marshal writes every byte that is not part of a valid UTF-8        *)
(* character as U+FFFD; RuneError stands for the three bytes (EF BF BD) of *)
(* that character in the string a subscriber decodes.                      *)
(***************************************************************************)
LeadByte == "C3"
ContByte == "A9"
RuneError == "EFBFBD"

\* byte i of s is not part of a valid UTF-8 character
InvalidByte(s, i) ==
    \/ s[i] = LeadByte /\ (i = Len(s) \/ s[i + 1] # ContByte)
    \/ s[i] = ContByte /\ (i = 1 \/ s[i - 1] # LeadByte)

\* the string a subscriber decodes from json.Marshal's encoding of s
ToValidUTF8(s) == [i \in DOMAIN s |-> IF InvalidByte(s, i) THEN RuneError ELSE s[i]]

\* len() of a string in which RuneError stands for three bytes
ByteLen(s) == Len(s) + 2 * Cardinality({i \in DOMAIN s : s[i] = RuneError})

(***************************************************************************)
(* State.                                                                  *)
(***************************************************************************)
VARIABLES
    main,      \* main[w]: position of worker w's main goroutine
    sig,       \* sig[w]: ctx of signal.NotifyContext is done (SIGINT/SIGTERM seen)
    queue,     \* queue[w]: messages pending in w's subscription, oldest first
    pc,        \* pc[m]: position of the handleMessage call for message m
    owner,     \* owner[m]: the worker the bus delivered m to
    req,       \* req[m]: the payload of m
    st,        \* st[m]: the InstallStatus the run is about to hand to publishStatus
    inv,       \* inv[m]: path held by the deferred os.Remove (NoPath: none registered)
    child,     \* child[m]: the ansible-playbook process of the run
    buf,       \* buf[m]: output captured from the child
    ctxErr,    \* ctxErr[m]: Err() of runPlaybook's context
    watch,     \* watch[m]: error kept by exec's context watcher once it has acted
    lastPub,   \* the latest message on "db.install.status", with the run it is of
    nOk,       \* nOk[m]: status messages of m the bus has accepted
    nPub,      \* nPub[m]: calls of nc.Publish made for m
    fs,        \* fs[p]: content of the file at path p, for the paths that exist
    sigActive, \* history: the shutdown signal arrived while m's child was running
    lateKill,  \* history: the watcher killed m's running child after the deadline
    wrote,     \* history: the path writeInventory returned to m with a nil error
    cutAt      \* history: where the callback for m was when its process ended

vars == <<main, sig, queue, pc, owner, req, st, inv, child, buf, ctxErr, watch,
          lastPub, nOk, nPub, fs, sigActive, lateKill, wrote, cutAt>>

NoPath == <<>>
NoWorker == "none"
NoStatus == [Status |-> "none"]
\* nothing has been published on the status subject
NoPub == [run |-> 0, msg |-> NoStatus, sigActive |-> FALSE, lateKill |-> FALSE]
\* the inventory directory holds no file
NoFiles == [p \in {} |-> 0]

\* the two messages of a pair of concurrent runs
PairMsgs == {1, 2}

\* positions of handleMessage at which the callback is running
InFlight == {"recv", "write", "select", "exec", "publish", "remove"}

Alive(w) == main[w] \in {"start", "connected", "ready"}

\* the subscription's goroutine is inside the callback
CallbackBusy(w) == \E m \in Msgs : owner[m] = w /\ pc[m] \in InFlight

Init ==
    /\ main = [w \in Workers |-> IF w = Solo THEN "start" ELSE "off"]
    /\ sig = [w \in Workers |-> FALSE]
    /\ queue = [w \in Workers |-> <<>>]
    /\ pc = [m \in Msgs |-> "bus"]
    /\ owner = [m \in Msgs |-> NoWorker]
    /\ req = [m \in Msgs |-> NoReq]
    /\ st = [m \in Msgs |-> NoStatus]
    /\ inv = [m \in Msgs |-> NoPath]
    /\ child = [m \in Msgs |-> "none"]
    /\ buf = [m \in Msgs |-> <<>>]
    /\ ctxErr = [m \in Msgs |-> "nil"]
    /\ watch = [m \in Msgs |-> "idle"]
    /\ lastPub = NoPub
    /\ nOk = [m \in Msgs |-> 0]
    /\ nPub = [m \in Msgs |-> 0]
    /\ fs = NoFiles
    /\ sigActive = [m \in Msgs |-> FALSE]
    /\ lateKill = [m \in Msgs |-> FALSE]
    /\ wrote = [m \in Msgs |-> NoPath]
    /\ cutAt = [m \in Msgs |-> "none"]

runVars == <<pc, owner, req, st, inv, child, buf, ctxErr, watch, lastPub, nOk, nPub, fs,
             sigActive, lateKill, wrote, cutAt>>

(***************************************************************************)
(* main, main.go:62-90.                                                    *)
(***************************************************************************)
\* nats.Connect and mustNoErr (66-70): log.Fatalf ends the process
Connect(w) ==
    /\ main[w] = "start"
    /\ \E ok \in BOOLEAN :
         main' = [main EXCEPT ![w] = IF ok THEN "connected" ELSE "fatal"]
    /\ UNCHANGED <<sig, queue>>
    /\ UNCHANGED runVars

\* signal.NotifyContext, nc.QueueSubscribe and mustNoErr (76-83)
Subscribe(w) ==
    /\ main[w] = "connected"
    /\ \E ok \in BOOLEAN :
         main' = [main EXCEPT ![w] = IF ok THEN "ready" ELSE "fatal"]
    /\ UNCHANGED <<sig, queue>>
    /\ UNCHANGED runVars

\* SIGINT or SIGTERM: the NotifyContext is cancelled, and with it the context
\* of every runPlaybook of this worker that is not done yet
Signal(w) ==
    /\ main[w] = "ready"
    /\ ~sig[w]
    /\ sig' = [sig EXCEPT ![w] = TRUE]
    /\ ctxErr' = [m \in Msgs |->
                    IF owner[m] = w /\ pc[m] = "exec" /\ ctxErr[m] = "nil"
                    THEN "canceled" ELSE ctxErr[m]]
    /\ sigActive' = [m \in Msgs |->
                       sigActive[m]
                       \/ (owner[m] = w /\ pc[m] = "exec" /\ child[m] = "running")]
    /\ UNCHANGED <<main, queue, pc, owner, req, st, inv, child, buf, watch,
                   lastPub, nOk, nPub, fs, lateKill, wrote, cutAt>>

\* <-ctx.Done() returns (88); the deferred sub.Unsubscribe, cancel and nc.Drain
\* run and main returns, which ends the process: messages still pending are
\* dropped; a callback that is running is cut off where it is and its locals
\* are gone; a child that is running stays behind as an orphan; files stay
MainExit(w) ==
    /\ main[w] = "ready"
    /\ sig[w]
    /\ main' = [main EXCEPT ![w] = "exited"]
    /\ queue' = [queue EXCEPT ![w] = <<>>]
    /\ pc' = [m \in Msgs |->
                IF owner[m] = w /\ pc[m] = "pending" THEN "dropped"
                ELSE IF owner[m] = w /\ pc[m] \in InFlight THEN "cut"
                ELSE pc[m]]
    /\ st' = [m \in Msgs |-> IF owner[m] = w THEN NoStatus ELSE st[m]]
    /\ inv' = [m \in Msgs |-> IF owner[m] = w THEN NoPath ELSE inv[m]]
    /\ buf' = [m \in Msgs |-> IF owner[m] = w THEN <<>> ELSE buf[m]]
    /\ ctxErr' = [m \in Msgs |-> IF owner[m] = w THEN "nil" ELSE ctxErr[m]]
    /\ watch' = [m \in Msgs |-> IF owner[m] = w THEN "idle" ELSE watch[m]]
    /\ child' = [m \in Msgs |->
                   IF owner[m] = w
                   THEN (IF child[m] = "running" THEN "orphan" ELSE "none")
                   ELSE child[m]]
    /\ sigActive' = [m \in Msgs |-> IF owner[m] = w THEN FALSE ELSE sigActive[m]]
    /\ lateKill' = [m \in Msgs |-> IF owner[m] = w THEN FALSE ELSE lateKill[m]]
    /\ wrote' = [m \in Msgs |-> IF owner[m] = w THEN NoPath ELSE wrote[m]]
    /\ cutAt' = [m \in Msgs |->
                   IF owner[m] = w /\ pc[m] \in InFlight THEN pc[m] ELSE cutAt[m]]
    /\ UNCHANGED <<sig, owner, req, lastPub, nOk, nPub, fs>>

(***************************************************************************)
(* The bus and the subscription (nats.go), main.go:80-82.                  *)
(***************************************************************************)
\* the bus hands the next message to one subscribed member of the queue group
Deliver(m, w, p) ==
    /\ pc[m] = "bus"
    /\ \A k \in Msgs : k < m => pc[k] # "bus"
    /\ main[w] = "ready"
    /\ pc' = [pc EXCEPT ![m] = "pending"]
    /\ owner' = [owner EXCEPT ![m] = w]
    /\ req' = [req EXCEPT ![m] = p]
    /\ queue' = [queue EXCEPT ![w] = Append(@, m)]
    /\ UNCHANGED <<main, sig, st, inv, child, buf, ctxErr, watch, lastPub, nOk, nPub, fs,
                   sigActive, lateKill, wrote, cutAt>>

\* the subscription's goroutine calls the callback for the oldest pending
\* message once the previous call has returned: handleMessage is entered (94)
Dispatch(w) ==
    /\ main[w] = "ready"
    /\ queue[w] # <<>>
    /\ ~CallbackBusy(w)
    /\ pc' = [pc EXCEPT ![Head(queue[w])] = "recv"]
    /\ queue' = [queue EXCEPT ![w] = Tail(@)]
    /\ UNCHANGED <<main, sig, owner, req, st, inv, child, buf, ctxErr, watch,
                   lastPub, nOk, nPub, fs, sigActive, lateKill, wrote, cutAt>>

(***************************************************************************)
(* The file system under the workers' working directory.                   *)
(***************************************************************************)
\* os.WriteFile(path, line, 0o600) that succeeds: the file is created or
\* truncated and holds the line; `by` records the run that wrote it
PutFile(files, p, line, m) ==
    [q \in DOMAIN files \cup {p} |->
        IF q = p THEN [line |-> line, by |-> m] ELSE files[q]]

\* os.Remove(p): unlinks an existing file, fails (and changes nothing) otherwise
RemoveFile(files, p) == [q \in DOMAIN files \ {p} |-> files[q]]

(***************************************************************************)
(* InstallStatus values built in handleMessage.                            *)
(***************************************************************************)
InstallStatus(id, name, status, inventory, code, output, err) ==
    [ID |-> id, Name |-> name, Status |-> status, Inventory |-> inventory,
     AnsibleExitCode |-> code, AnsibleOutput |-> output, Error |-> err]

\* main.go:99-105
StatusInvalidJSON ==
    InstallStatus(0, <<>>, "error", NoPath, 0, <<>>, "invalid JSON")

\* main.go:112-118 and 126-132
StatusEarlyError(r, err) ==
    InstallStatus(r.ID, r.Name, "error", NoPath, 0, <<>>, err)

\* main.go:151-154
StatusSelectError(r, invPath, err) ==
    InstallStatus(r.ID, r.Name, "error", invPath, 0, <<>>, err)

\* main.go:161-180: res is what runPlaybook returned
StatusOfRun(r, invPath, res) ==
    InstallStatus(r.ID, r.Name,
                  IF res.err # "nil" \/ res.exitCode # 0 THEN "error" ELSE "success",
                  invPath, res.exitCode,
                  truncate(res.output, maxOutputBytes),
                  IF res.err # "nil" THEN res.err ELSE "")

(***************************************************************************)
(* handleMessage, main.go:94-181.                                          *)
(***************************************************************************)
\* the `return` after the validation failure is missing: the run goes on to
\* writeInventory
DecodeValidateNoReturn(m) ==
    /\ pc[m] = "recv"
    /\ Alive(owner[m])
    /\ IF ~req[m].json
       THEN /\ st' = [st EXCEPT ![m] = StatusInvalidJSON]
            /\ pc' = [pc EXCEPT ![m] = "publish"]
       ELSE /\ pc' = [pc EXCEPT ![m] = "write"]
            /\ UNCHANGED st
    /\ UNCHANGED <<main, sig, queue, owner, req, inv, child, buf, ctxErr, watch,
                   lastPub, nOk, nPub, fs, sigActive, lateKill, wrote, cutAt>>

\* time.Sleep, json.Unmarshal and validateRequest (95-120)
DecodeValidate(m) ==
    /\ pc[m] = "recv"
    /\ Alive(owner[m])
    /\ IF ~req[m].json
       THEN /\ st' = [st EXCEPT ![m] = StatusInvalidJSON]
            /\ pc' = [pc EXCEPT ![m] = "publish"]
       ELSE IF validateRequest(req[m]) # "nil"
       THEN /\ st' = [st EXCEPT ![m] = StatusEarlyError(req[m], validateRequest(req[m]))]
            /\ pc' = [pc EXCEPT ![m] = "publish"]
       ELSE /\ pc' = [pc EXCEPT ![m] = "write"]
            /\ UNCHANGED st
    /\ UNCHANGED <<main, sig, queue, owner, req, inv, child, buf, ctxErr, watch,
                   lastPub, nOk, nPub, fs, sigActive, lateKill, wrote, cutAt>>

\* writeInventory, main.go:208-227, for the way the system calls end:
\*   "mkdir": os.MkdirAll fails;
\*   "open":  os.WriteFile fails before it has created or truncated the file;
\*   "write": os.WriteFile fails after it has created or truncated the file;
\*   "ok":    the line is written.
writeInventory(files, r, m, how) ==
    CASE how = "mkdir" ->
           [fs |-> files, path |-> NoPath, err |-> "create inventories dir"]
      [] how = "open" ->
           [fs |-> files, path |-> InventoryPath(r), err |-> "write inventory file"]
      [] how = "write" ->
           [fs |-> PutFile(files, InventoryPath(r), <<>>, m),
            path |-> InventoryPath(r), err |-> "write inventory file"]
      [] OTHER ->
           [fs |-> PutFile(files, InventoryPath(r), InventoryLine(r), m),
            path |-> InventoryPath(r), err |-> "nil"]

\* no removal is deferred
DeferredPathNone(w) == NoPath

\* the path the deferred os.Remove is registered for (122-146): nothing is
\* deferred when writeInventory returned an error
DeferredPath(w) == IF w.err = "nil" THEN w.path ELSE NoPath

\* lines 122-146
WriteInventory(m) ==
    /\ pc[m] = "write"
    /\ Alive(owner[m])
    /\ \E how \in {"mkdir", "open", "write", "ok"} :
         LET w == writeInventory(fs, req[m], m, how) IN
         /\ fs' = w.fs
         /\ inv' = [inv EXCEPT ![m] = DeferredPath(w)]
         /\ wrote' = [wrote EXCEPT ![m] = IF w.err = "nil" THEN w.path ELSE NoPath]
         /\ IF w.err # "nil"
            THEN /\ st' = [st EXCEPT ![m] = StatusEarlyError(req[m], w.err)]
                 /\ pc' = [pc EXCEPT ![m] = "publish"]
            ELSE /\ pc' = [pc EXCEPT ![m] = "select"]
                 /\ UNCHANGED st
    /\ UNCHANGED <<main, sig, queue, owner, req, child, buf, ctxErr, watch,
                   lastPub, nOk, nPub, sigActive, lateKill, cutAt>>

(***************************************************************************)
(* runPlaybook, main.go:259-291.                                           *)
(***************************************************************************)
\* exit codes a tool that ends by itself may return
ToolExitCodes == {0, 2}

NilErr == [kind |-> "nil", code |-> 0, text |-> "nil"]
ExitErr(code) == [kind |-> "exit", code |-> code, text |-> "exit status"]
KilledErr == [kind |-> "exit", code |-> CodeSignaled, text |-> "signal: killed"]
CtxError(e) ==
    IF e = "deadline"
    THEN [kind |-> "deadline", code |-> 0, text |-> "context deadline exceeded"]
    ELSE [kind |-> "canceled", code |-> 0, text |-> "context canceled"]
LaunchErr == [kind |-> "launch", code |-> 0, text |-> "exec: executable not found"]

\* what cmd.Wait returns (274) for a child in state c, w being what the context
\* watcher kept ("idle": it has not acted); a child that exited with status 0
\* after the watcher acted yields the context's error when ctxAware (Go >= 1.20)
\* and nil otherwise
cmdWait(c, w, ctxAware) ==
    CASE c = "killed" -> KilledErr
      [] c = "exit2" -> ExitErr(2)
      [] OTHER -> IF w # "idle" /\ ctxAware THEN CtxError(w) ELSE NilErr

\* lines 276-290: runErr is what cmd.Run returned
runPlaybookResult(runErr, output) ==
    IF runErr.kind = "nil"
    THEN [exitCode |-> 0, output |-> output, err |-> "nil"]
    ELSE IF runErr.kind = "deadline"
    THEN [exitCode |-> CodeTimeout, output |-> output,
          err |-> "ansible-playbook timed out"]
    ELSE IF runErr.kind = "exit"
    THEN [exitCode |-> runErr.code, output |-> output, err |-> runErr.text]
    ELSE [exitCode |-> CodeOther, output |-> output, err |-> runErr.text]

\* lines 260-262
PlaybookNotFound ==
    [exitCode |-> CodeNotFound, output |-> <<>>, err |-> "playbook not found"]

\* selectPlaybook, os.Stat, context.WithTimeout and cmd.Start (148-274), for
\* the way the system calls end:
\*   "nostat":  os.Stat fails, the playbook is missing;
\*   "nostart": the executable is not found or cannot be started;
\*   "start":   the child is started, unless the context is already done:
\*              cmd.Start then returns the context's error and starts nothing.
StartPlaybook(m) ==
    /\ pc[m] = "select"
    /\ Alive(owner[m])
    /\ LET sel == selectPlaybook(req[m].DBType) IN
       IF sel.err # "nil"
       THEN /\ st' = [st EXCEPT ![m] = StatusSelectError(req[m], inv[m], sel.err)]
            /\ pc' = [pc EXCEPT ![m] = "publish"]
            /\ UNCHANGED <<child, ctxErr>>
       ELSE \E how \in {"nostat", "nostart", "start"} :
              IF how = "nostat"
              THEN /\ st' = [st EXCEPT ![m] = StatusOfRun(req[m], inv[m], PlaybookNotFound)]
                   /\ pc' = [pc EXCEPT ![m] = "publish"]
                   /\ UNCHANGED <<child, ctxErr>>
              ELSE IF how = "nostart"
              THEN /\ st' = [st EXCEPT ![m] =
                               StatusOfRun(req[m], inv[m],
                                   runPlaybookResult(LaunchErr, <<>>))]
                   /\ pc' = [pc EXCEPT ![m] = "publish"]
                   /\ UNCHANGED <<child, ctxErr>>
              ELSE IF sig[owner[m]]
              THEN /\ st' = [st EXCEPT ![m] =
                               StatusOfRun(req[m], inv[m],
                                   runPlaybookResult(CtxError("canceled"), <<>>))]
                   /\ pc' = [pc EXCEPT ![m] = "publish"]
                   /\ UNCHANGED <<child, ctxErr>>
              ELSE /\ child' = [child EXCEPT ![m] = "running"]
                   /\ pc' = [pc EXCEPT ![m] = "exec"]
                   /\ UNCHANGED <<st, ctxErr>>
    /\ UNCHANGED <<main, sig, queue, owner, req, inv, buf, watch, lastPub, nOk, nPub, fs,
                   sigActive, lateKill, wrote, cutAt>>

\* the tool writes a byte to stdout or stderr; the MultiWriter captures it (269-272)
ChildWrite(m) ==
    /\ pc[m] = "exec"
    /\ Alive(owner[m])
    /\ child[m] = "running"
    /\ Len(buf[m]) < MaxOut
    /\ buf' = [buf EXCEPT ![m] = Append(@, "o")]
    /\ UNCHANGED <<main, sig, queue, pc, owner, req, st, inv, child, ctxErr,
                   watch, lastPub, nOk, nPub, fs, sigActive, lateKill, wrote, cutAt>>

\* the tool ends by itself
ChildExit(m, code) ==
    /\ pc[m] = "exec"
    /\ child[m] = "running"
    /\ child' = [child EXCEPT ![m] = IF code = 0 THEN "exit0" ELSE "exit2"]
    /\ UNCHANGED <<main, sig, queue, pc, owner, req, st, inv, buf, ctxErr,
                   watch, lastPub, nOk, nPub, fs, sigActive, lateKill, wrote, cutAt>>

\* playTimeout passes before cmd.Run has returned (264)
DeadlineExpire(m) ==
    /\ pc[m] = "exec"
    /\ Alive(owner[m])
    /\ ctxErr[m] = "nil"
    /\ ctxErr' = [ctxErr EXCEPT ![m] = "deadline"]
    /\ UNCHANGED <<main, sig, queue, pc, owner, req, st, inv, child, buf, watch,
                   lastPub, nOk, nPub, fs, sigActive, lateKill, wrote, cutAt>>

\* exec's watcher sees the context done and kills the process (267): a running
\* child dies of SIGKILL; one that has exited and is not yet waited for is
\* signalled without effect
WatchCtx(m) ==
    /\ pc[m] = "exec"
    /\ Alive(owner[m])
    /\ ctxErr[m] # "nil"
    /\ watch[m] = "idle"
    /\ watch' = [watch EXCEPT ![m] = ctxErr[m]]
    /\ child' = [child EXCEPT ![m] = IF @ = "running" THEN "killed" ELSE @]
    /\ lateKill' = [lateKill EXCEPT ![m] =
                       ctxErr[m] = "deadline" /\ child[m] = "running"]
    /\ UNCHANGED <<main, sig, queue, pc, owner, req, st, inv, buf, ctxErr, lastPub, nOk,
                   nPub, fs, sigActive, wrote, cutAt>>

\* cmd.Run returns (274); runPlaybook classifies (276-290) and handleMessage
\* prepares the status (161-180)
WaitReturn(m) ==
    /\ pc[m] = "exec"
    /\ Alive(owner[m])
    /\ child[m] \in {"exit0", "exit2", "killed"}
    /\ \E ctxAware \in BOOLEAN :
         \* the release of Go matters only for a child that exited with
         \* status 0 after the watcher acted
         /\ (ctxAware \/ (child[m] = "exit0" /\ watch[m] # "idle"))
         /\ st' = [st EXCEPT ![m] =
                     StatusOfRun(req[m], inv[m],
                         runPlaybookResult(cmdWait(child[m], watch[m], ctxAware),
                                           buf[m]))]
    /\ pc' = [pc EXCEPT ![m] = "publish"]
    \* the child is reaped and runPlaybook's locals are gone; the captured
    \* bytes are returned and are handleMessage's `output` (159)
    /\ child' = [child EXCEPT ![m] = "none"]
    /\ ctxErr' = [ctxErr EXCEPT ![m] = "nil"]
    /\ watch' = [watch EXCEPT ![m] = "idle"]
    /\ UNCHANGED <<main, sig, queue, owner, req, inv, buf, lastPub, nOk, nPub, fs,
                   sigActive, lateKill, wrote, cutAt>>

(***************************************************************************)
(* publishStatus, main.go:293-304, and the deferred os.Remove, 136-146.    *)
(***************************************************************************)
\* json.Marshal(st) as a subscriber decodes it (294): strings are coerced to
\* valid UTF-8; the other strings of a status are valid already
jsonMarshal(status) == [status EXCEPT !.AnsibleOutput = ToValidUTF8(@)]

\* the message on the status subject, with the run it is of and the run's history
Published(m, status) ==
    [run |-> m, msg |-> jsonMarshal(status), sigActive |-> sigActive[m],
     lateKill |-> lateKill[m]]

\* a failed nc.Publish is tried again: the run stays at publishStatus
PublishStatusRetry(m) ==
    /\ pc[m] = "publish"
    /\ Alive(owner[m])
    /\ \E ok \in BOOLEAN :
         /\ lastPub' = IF ok THEN Published(m, st[m]) ELSE lastPub
         /\ nOk' = [nOk EXCEPT ![m] = IF ok THEN @ + 1 ELSE @]
         /\ st' = [st EXCEPT ![m] = IF ok THEN NoStatus ELSE @]
         /\ pc' = [pc EXCEPT ![m] = IF ~ok THEN "publish"
                                     ELSE IF inv[m] # NoPath THEN "remove" ELSE "done"]
         /\ buf' = [buf EXCEPT ![m] = IF ok THEN <<>> ELSE @]
    /\ nPub' = [nPub EXCEPT ![m] = @ + 1]
    /\ sigActive' = [sigActive EXCEPT ![m] = FALSE]
    /\ lateKill' = [lateKill EXCEPT ![m] = FALSE]
    /\ wrote' = [wrote EXCEPT ![m] = IF inv[m] # NoPath THEN @ ELSE NoPath]
    /\ UNCHANGED <<main, sig, queue, owner, req, inv, child, ctxErr,
                   watch, fs, cutAt>>

\* publishStatus is called once; nc.Publish may fail, which is only logged
PublishStatus(m) ==
    /\ pc[m] = "publish"
    /\ Alive(owner[m])
    /\ \E ok \in BOOLEAN :
         /\ lastPub' = IF ok THEN Published(m, st[m]) ELSE lastPub
         /\ nOk' = [nOk EXCEPT ![m] = IF ok THEN @ + 1 ELSE @]
    /\ nPub' = [nPub EXCEPT ![m] = @ + 1]
    /\ st' = [st EXCEPT ![m] = NoStatus]
    /\ sigActive' = [sigActive EXCEPT ![m] = FALSE]
    /\ lateKill' = [lateKill EXCEPT ![m] = FALSE]
    /\ pc' = [pc EXCEPT ![m] = IF inv[m] # NoPath THEN "remove" ELSE "done"]
    /\ wrote' = [wrote EXCEPT ![m] = IF inv[m] # NoPath THEN @ ELSE NoPath]
    /\ buf' = [buf EXCEPT ![m] = <<>>]
    /\ UNCHANGED <<main, sig, queue, owner, req, inv, child, ctxErr,
                   watch, fs, cutAt>>

\* handleMessage returns: the deferred function removes the inventory (137-146)
DeferredRemove(m) ==
    /\ pc[m] = "remove"
    /\ Alive(owner[m])
    /\ fs' = RemoveFile(fs, inv[m])
    /\ inv' = [inv EXCEPT ![m] = NoPath]
    /\ wrote' = [wrote EXCEPT ![m] = NoPath]
    /\ pc' = [pc EXCEPT ![m] = "done"]
    /\ UNCHANGED <<main, sig, queue, owner, req, st, child, buf, ctxErr,
                   watch, lastPub, nOk, nPub, sigActive, lateKill, cutAt>>

(***************************************************************************)
(* Specification.                                                          *)
(***************************************************************************)
Next ==
    \/ \E w \in Workers : Connect(w)
    \/ \E w \in Workers : Subscribe(w)
    \/ \E w \in Workers : Signal(w)
    \/ \E w \in Workers : MainExit(w)
    \/ \E m \in Msgs, w \in Workers, p \in SoloPayloads : Deliver(m, w, p)
    \/ \E w \in Workers : Dispatch(w)
    \/ \E m \in Msgs : DecodeValidate(m)
    \/ \E m \in Msgs : WriteInventory(m)
    \/ \E m \in Msgs : StartPlaybook(m)
    \/ \E m \in Msgs : ChildWrite(m)
    \/ \E m \in Msgs, code \in ToolExitCodes : ChildExit(m, code)
    \/ \E m \in Msgs : DeadlineExpire(m)
    \/ \E m \in Msgs : WatchCtx(m)
    \/ \E m \in Msgs : WaitReturn(m)
    \/ \E m \in Msgs : PublishStatus(m)
    \/ \E m \in Msgs : DeferredRemove(m)

\* one worker process, from its start to its exit
Spec == Init /\ [][Next]_vars

\* two workers of the queue group, connected and subscribed, that stay up, and
\* two messages of which the bus hands one to each
InitPair ==
    /\ main = [w \in Workers |-> "ready"]
    /\ sig = [w \in Workers |-> FALSE]
    /\ queue = [w \in Workers |-> <<>>]
    /\ pc = [m \in Msgs |-> IF m \in PairMsgs THEN "bus" ELSE "unsent"]
    /\ owner = [m \in Msgs |-> NoWorker]
    /\ req = [m \in Msgs |-> NoReq]
    /\ st = [m \in Msgs |-> NoStatus]
    /\ inv = [m \in Msgs |-> NoPath]
    /\ child = [m \in Msgs |-> "none"]
    /\ buf = [m \in Msgs |-> <<>>]
    /\ ctxErr = [m \in Msgs |-> "nil"]
    /\ watch = [m \in Msgs |-> "idle"]
    /\ lastPub = NoPub
    /\ nOk = [m \in Msgs |-> 0]
    /\ nPub = [m \in Msgs |-> 0]
    /\ fs = NoFiles
    /\ sigActive = [m \in Msgs |-> FALSE]
    /\ lateKill = [m \in Msgs |-> FALSE]
    /\ wrote = [m \in Msgs |-> NoPath]
    /\ cutAt = [m \in Msgs |-> "none"]

DeliverPair(m, w, p) ==
    /\ \A k \in Msgs : owner[k] # w
    /\ Deliver(m, w, p)

NextPair ==
    \/ \E m \in Msgs, w \in Workers, p \in Payloads : DeliverPair(m, w, p)
    \/ \E w \in Workers : Dispatch(w)
    \/ \E m \in Msgs : DecodeValidate(m)
    \/ \E m \in Msgs : WriteInventory(m)
    \/ \E m \in Msgs : StartPlaybook(m)
    \/ \E m \in Msgs : ChildWrite(m)
    \/ \E m \in Msgs, code \in ToolExitCodes : ChildExit(m, code)
    \/ \E m \in Msgs : DeadlineExpire(m)
    \/ \E m \in Msgs : WatchCtx(m)
    \/ \E m \in Msgs : WaitReturn(m)
    \/ \E m \in Msgs : PublishStatus(m)
    \/ \E m \in Msgs : DeferredRemove(m)

SpecPair == InitPair /\ [][NextPair]_vars

(***************************************************************************)
(* One run whose tool has written its output, for outputs around the       *)
(* limit maxOutputBytes.                                                   *)
(***************************************************************************)
\* n ASCII bytes
Ascii(n) == [i \in 1..n |-> "o"]

\* a two-byte character
TwoByteChar == <<LeadByte, ContByte>>

\* outputs (valid UTF-8) shorter than, as long as and longer than the limit,
\* the limit falling between two characters or inside one
Outputs ==
    { Ascii(0), TwoByteChar,
      Ascii(maxOutputBytes - 1), Ascii(maxOutputBytes),
      Ascii(maxOutputBytes - 2) \o TwoByteChar,
      Ascii(maxOutputBytes + 1), Ascii(2 * maxOutputBytes),
      Ascii(maxOutputBytes) \o TwoByteChar,
      Ascii(maxOutputBytes - 1) \o TwoByteChar }

ValidRequest == Req(1, NameDBP, "10.0.0.5", PostgreSQL)

\* message 1 is a valid request in the hands of the one worker; its inventory
\* is written, its tool is running and has written `out`
InitOut ==
    /\ main = [w \in Workers |-> IF w = Solo THEN "ready" ELSE "off"]
    /\ sig = [w \in Workers |-> FALSE]
    /\ queue = [w \in Workers |-> <<>>]
    /\ pc = [m \in Msgs |-> IF m = 1 THEN "exec" ELSE "unsent"]
    /\ owner = [m \in Msgs |-> IF m = 1 THEN Solo ELSE NoWorker]
    /\ req = [m \in Msgs |-> IF m = 1 THEN ValidRequest ELSE NoReq]
    /\ st = [m \in Msgs |-> NoStatus]
    /\ inv = [m \in Msgs |-> IF m = 1 THEN InventoryPath(ValidRequest) ELSE NoPath]
    /\ child = [m \in Msgs |-> IF m = 1 THEN "running" ELSE "none"]
    /\ \E out \in Outputs : buf = [m \in Msgs |-> IF m = 1 THEN out ELSE <<>>]
    /\ ctxErr = [m \in Msgs |-> "nil"]
    /\ watch = [m \in Msgs |-> "idle"]
    /\ lastPub = NoPub
    /\ nOk = [m \in Msgs |-> 0]
    /\ nPub = [m \in Msgs |-> 0]
    /\ fs = PutFile(NoFiles, InventoryPath(ValidRequest), InventoryLine(ValidRequest), 1)
    /\ sigActive = [m \in Msgs |-> FALSE]
    /\ lateKill = [m \in Msgs |-> FALSE]
    /\ wrote = [m \in Msgs |-> IF m = 1 THEN InventoryPath(ValidRequest) ELSE NoPath]
    /\ cutAt = [m \in Msgs |-> "none"]

NextOut ==
    \/ \E m \in Msgs : ChildWrite(m)
    \/ \E m \in Msgs, code \in ToolExitCodes : ChildExit(m, code)
    \/ \E m \in Msgs : DeadlineExpire(m)
    \/ \E m \in Msgs : WatchCtx(m)
    \/ \E m \in Msgs : WaitReturn(m)
    \/ \E m \in Msgs : PublishStatus(m)
    \/ \E m \in Msgs : DeferredRemove(m)

SpecOut == InitOut /\ [][NextOut]_vars

(***************************************************************************)
(* One message on one worker, for requests that violate any of the rules   *)
(* of validateRequest and for db_type values in several spellings.         *)
(***************************************************************************)
Oracle == <<"o","r","a","c","l","e">>

DBTypes ==
    { PostgreSQL, <<"P","o","s","t","g","r","e","S","Q","L">>,
      <<" ">> \o PostgreSQL, Postgres, Pg, <<"P","G">>, Oracle, <<>> }

Requests ==
    { [json |-> TRUE, ID |-> id, Name |-> name, IPAddress |-> ip,
       VMUser |-> vu, VMPassword |-> vp, DBType |-> t,
       DBUser |-> du, DBPassword |-> dp, DBName |-> dn] :
        id \in {0, 1}, name \in {<<>>, <<" ">>, NameDBP},
        ip \in {"not-an-ip", "10.0.0.5"},
        vu \in {"", "root"}, vp \in {"", "x"}, t \in DBTypes,
        du \in {"", "a"}, dp \in {"", "b"}, dn \in {"", "c"} }
    \cup {NoReq}

InitRequests ==
    /\ main = [w \in Workers |-> IF w = Solo THEN "ready" ELSE "off"]
    /\ sig = [w \in Workers |-> FALSE]
    /\ queue = [w \in Workers |-> <<>>]
    /\ pc = [m \in Msgs |-> IF m = 1 THEN "bus" ELSE "unsent"]
    /\ owner = [m \in Msgs |-> NoWorker]
    /\ req = [m \in Msgs |-> NoReq]
    /\ st = [m \in Msgs |-> NoStatus]
    /\ inv = [m \in Msgs |-> NoPath]
    /\ child = [m \in Msgs |-> "none"]
    /\ buf = [m \in Msgs |-> <<>>]
    /\ ctxErr = [m \in Msgs |-> "nil"]
    /\ watch = [m \in Msgs |-> "idle"]
    /\ lastPub = NoPub
    /\ nOk = [m \in Msgs |-> 0]
    /\ nPub = [m \in Msgs |-> 0]
    /\ fs = NoFiles
    /\ sigActive = [m \in Msgs |-> FALSE]
    /\ lateKill = [m \in Msgs |-> FALSE]
    /\ wrote = [m \in Msgs |-> NoPath]
    /\ cutAt = [m \in Msgs |-> "none"]

\* the bus hands message m, any of the requests, to worker w
DeliverRequest(m, w) ==
    /\ pc[m] = "bus"
    /\ main[w] = "ready"
    /\ \E p \in Requests : Deliver(m, w, p)

NextRequests ==
    \/ \E m \in Msgs, w \in Workers : DeliverRequest(m, w)
    \/ \E w \in Workers : Dispatch(w)
    \/ \E m \in Msgs : DecodeValidate(m)
    \/ \E m \in Msgs : WriteInventory(m)
    \/ \E m \in Msgs : StartPlaybook(m)
    \/ \E m \in Msgs : ChildWrite(m)
    \/ \E m \in Msgs, code \in ToolExitCodes : ChildExit(m, code)
    \/ \E m \in Msgs : DeadlineExpire(m)
    \/ \E m \in Msgs : WatchCtx(m)
    \/ \E m \in Msgs : WaitReturn(m)
    \/ \E m \in Msgs : PublishStatus(m)
    \/ \E m \in Msgs : DeferredRemove(m)

SpecRequests == InitRequests /\ [][NextRequests]_vars

(***************************************************************************)
(* Properties.                                                             *)
(***************************************************************************)
\* the callback for m is over: handleMessage returned, or the process ended
\* while it was running
Ended(m) == pc[m] \in {"done", "cut"}

\* m was decoded and failed validateRequest, and the run got past it
FailedValidation(m) ==
    /\ req[m].json
    /\ validateRequest(req[m]) # "nil"
    /\ \/ pc[m] \in {"publish", "done"}
       \/ pc[m] = "cut" /\ cutAt[m] = "publish"

\* the files a run of worker w wrote in full
FilesOf(w) ==
    {p \in DOMAIN fs : fs[p].line # <<>> /\ owner[fs[p].by] = w}

\* C1: every message handed to handleMessage gets exactly one status: once the
\* callback for it is over, publishStatus has called nc.Publish for it once
\* (a call counts whether or not the bus accepted the message).
C1_ExactlyOnePublish ==
    \A m \in Msgs : Ended(m) => nPub[m] = 1

C3_NoInventoryOutlivesWorker ==
    \A w \in Workers : main[w] = "exited" => FilesOf(w) = {}

\* C4: a request that fails validateRequest gets exactly one status, an error,
\* and no inventory file is written for it.
C4_ValidationFailureOneError ==
    \A m \in Msgs :
        FailedValidation(m) =>
            /\ Ended(m) => nPub[m] = 1
            /\ pc[m] = "publish" => st[m].Status = "error"
            /\ \A p \in DOMAIN fs : fs[p].by # m

\* C5: while a run is inside the tool invocation, a message pending in the same
\* subscription can begin: the callback for it can be entered.
C5_SecondMessageCanBegin ==
    \A w \in Workers :
        (/\ main[w] = "ready"
         /\ queue[w] # <<>>
         /\ \E m \in Msgs : owner[m] = w /\ pc[m] = "exec")
            => ENABLED Dispatch(w)

\* C6: two overlapping runs of the same request each have their own inventory
\* file: the paths differ, and while a run holds its file the file exists and
\* is the one that run wrote.
C6_DuplicateRunsIndependent ==
    \A m1, m2 \in Msgs :
        (m1 # m2 /\ req[m1] = req[m2] /\ inv[m1] # NoPath /\ inv[m2] # NoPath)
            => /\ inv[m1] # inv[m2]
               /\ inv[m1] \in DOMAIN fs
               /\ fs[inv[m1]].by = m1

\* C7: two concurrent runs of requests with distinct ids have distinct
\* inventory paths, and while one of them holds its file the file exists and
\* holds the line that run wrote: the other has not overwritten or removed it.
C7_DistinctIdsDistinctFiles ==
    \A m1, m2 \in Msgs :
        (req[m1].json /\ req[m2].json /\ req[m1].ID # req[m2].ID)
            => /\ (validateRequest(req[m1]) = "nil" /\ validateRequest(req[m2]) = "nil")
                    => InventoryPath(req[m1]) # InventoryPath(req[m2])
               /\ inv[m1] # NoPath
                    => /\ inv[m1] \in DOMAIN fs
                       /\ fs[inv[m1]] = [line |-> InventoryLine(req[m1]), by |-> m1]
               /\ (inv[m1] # NoPath /\ inv[m2] # NoPath) => inv[m1] # inv[m2]

\* two runs with distinct ids and names that sanitize to the same string hold
\* their inventory files at the same time, both tools running
C7_Witness ==
    \E m1, m2 \in Msgs :
        /\ req[m1].ID # req[m2].ID
        /\ req[m1].Name # req[m2].Name
        /\ sanitizeName(req[m1].Name) = sanitizeName(req[m2].Name)
        /\ pc[m1] = "exec" /\ pc[m2] = "exec"
        /\ inv[m1] \in DOMAIN fs /\ inv[m2] \in DOMAIN fs

\* C8: a run whose child was running when the shutdown signal arrived never
\* publishes status "success".
C8_ShutdownNeverSuccess ==
    lastPub.sigActive => lastPub.msg.Status = "error"

\* C9: a worker process does not exit while one of its runs is in flight:
\* no callback is cut off by the exit.
C9_NoRunCutOff ==
    \A w \in Workers :
        main[w] = "exited" => \A m \in Msgs : owner[m] = w => pc[m] # "cut"

\* C10: a run whose tool was still running at the deadline and was killed for
\* it publishes status "error" with exit code 124 and the timeout text.
C10_TimeoutReported ==
    lastPub.lateKill =>
        /\ lastPub.msg.Status = "error"
        /\ lastPub.msg.AnsibleExitCode = CodeTimeout
        /\ lastPub.msg.Error = "ansible-playbook timed out"

\* C11: for a run whose tool was launched, the status handed to publishStatus
\* when cmd.Run returns is "success" with ansible_exit_code 0 exactly when the
\* tool exited with code 0, and is "error" with the tool's code when the tool
\* exited with a nonzero code.
C11_ExitCodeReported ==
    [][\A m \in Msgs :
         (pc[m] = "exec" /\ pc'[m] = "publish")
            => /\ (st'[m].Status = "success" /\ st'[m].AnsibleExitCode = 0)
                     <=> child[m] = "exit0"
               /\ child[m] = "exit2"
                     => (st'[m].Status = "error" /\ st'[m].AnsibleExitCode = 2)]_vars

\* C12: a captured output of at most maxOutputBytes bytes is published
\* unchanged; a longer one is published as its first maxOutputBytes bytes
\* followed by the marker, so the published ansible_output never has more
\* bytes than the limit plus the marker; and a tool that exited with code 0
\* (its context not done) is reported as success whatever the size.
C12_OutputBounded ==
    [][\A m \in Msgs :
         /\ (pc[m] = "publish" /\ nOk'[m] = nOk[m] + 1)
               => LET out == buf[m]
                      pub == lastPub'.msg.AnsibleOutput
                  IN  /\ Len(out) <= maxOutputBytes => pub = out
                      /\ Len(out) > maxOutputBytes
                            => pub = SubSeq(out, 1, maxOutputBytes) \o TruncMarker
                      /\ ByteLen(pub) <= maxOutputBytes + Len(TruncMarker)
         /\ (pc[m] = "exec" /\ pc'[m] = "publish"
                /\ child[m] = "exit0" /\ watch[m] = "idle")
               => st'[m].Status = "success"]_vars

\* the positions a run can move to from position p
StepsFrom(p) ==
    CASE p = "recv" -> {"write", "publish"}
      [] p = "write" -> {"select", "publish"}
      [] p = "select" -> {"exec", "publish"}
      [] p = "exec" -> {"publish"}
      [] p = "publish" -> {"remove", "done"}
      [] p = "remove" -> {"done"}
      [] OTHER -> {}

\* C13: a run moves through Received, Validated, InventoryWritten,
\* PlaybookSelected, Executing, StatusPublished, ArtifactRemoved in that order:
\* the inventory is written only by a run at writeInventory whose request
\* passed validation, the tool is started only by a run that holds its written
\* inventory and has a playbook, publishStatus is called only when no tool
\* process of the run is left, a file is removed only by a run that has
\* published, and a run that fails before the tool goes to publishStatus with
\* no tool started.
C13_StateMachineOrder ==
    [][\A m \in Msgs :
         /\ (pc[m] \in InFlight /\ pc'[m] # pc[m])
               => pc'[m] \in StepsFrom(pc[m]) \cup {"cut"}
         /\ (pc'[m] # pc[m] /\ pc'[m] \in {"write", "select", "exec"})
               => (req[m].json /\ validateRequest(req[m]) = "nil")
         /\ (\E p \in DOMAIN fs' :
                 fs'[p].by = m /\ (p \notin DOMAIN fs \/ fs[p] # fs'[p]))
               => (pc[m] = "write" /\ req[m].json /\ validateRequest(req[m]) = "nil")
         /\ (child[m] # "running" /\ child'[m] = "running")
               => /\ pc[m] = "select" /\ pc'[m] = "exec"
                  /\ inv[m] = InventoryPath(req[m])
                  /\ inv[m] \in DOMAIN fs
                  /\ fs[inv[m]] = [line |-> InventoryLine(req[m]), by |-> m]
                  /\ selectPlaybook(req[m].DBType).err = "nil"
         /\ nPub'[m] # nPub[m]
               => (pc[m] = "publish" /\ child[m] = "none" /\ nPub[m] = 0)
         /\ (pc[m] = "remove" /\ pc'[m] = "done")
               => (nPub[m] = 1 /\ DOMAIN fs' = DOMAIN fs \ {inv[m]})
         /\ (pc[m] # "remove" \/ pc'[m] # "done")
               => (\A p \in DOMAIN fs : fs[p].by = m => p \in DOMAIN fs')
         /\ (pc[m] \in {"recv", "write", "select"} /\ pc'[m] = "publish")
               => (child'[m] = "none" /\ st'[m].Status = "error")]_vars

\* a run went through every position: its tool ran and failed with code 2, the
\* status was published and the inventory removed
C13_Witness ==
    \E m \in Msgs :
        /\ pc[m] = "done"
        /\ nPub[m] = 1
        /\ lastPub.run = m
        /\ lastPub.msg.AnsibleExitCode = 2
        /\ lastPub.msg.Inventory = InventoryPath(req[m])
        /\ InventoryPath(req[m]) \notin DOMAIN fs

\* the error texts of writeInventory (210, 224)
InventoryWriteErrors == {"create inventories dir", "write inventory file"}

\* writeInventory failed for m: the status the run built, or published and
\* returned after, carries writeInventory's error
WriteFailed(m) ==
    \/ pc[m] = "publish" /\ st[m].Error \in InventoryWriteErrors
    \/ /\ pc[m] = "done"
       /\ lastPub.run = m
       /\ lastPub.msg.Error \in InventoryWriteErrors

\* C14: a run whose writeInventory failed builds an error status, has called
\* nc.Publish once when it has returned, and leaves no file of its own on disk.
C14_WriteFailureLeavesNothing ==
    \A m \in Msgs :
        WriteFailed(m) =>
            /\ pc[m] = "publish" => st[m].Status = "error"
            /\ pc[m] = "done" => nPub[m] = 1
            /\ \A p \in DOMAIN fs : fs[p].by # m

\* C15: when the playbook file is missing no child is started and the run
\* builds an error status with the playbook-not-found error, code 127 and the
\* inventory path; from there the run calls nc.Publish once and then removes
\* its inventory: its next step is the publish, and after the publish the
\* removal, which leaves no file at the path.
C15_MissingPlaybookReported ==
    [][\A m \in Msgs :
         /\ (pc[m] = "select" /\ pc'[m] = "publish"
                /\ st'[m].Error = PlaybookNotFound.err)
               => /\ child'[m] = "none"
                  /\ st'[m].Status = "error"
                  /\ st'[m].AnsibleExitCode = CodeNotFound
                  /\ st'[m].Inventory = InventoryPath(req[m])
         /\ (pc[m] = "publish" /\ st[m].Error = PlaybookNotFound.err
                /\ pc'[m] # "publish")
               => (pc'[m] = "remove" /\ nPub'[m] = 1 /\ child'[m] = "none")
         /\ (pc[m] = "remove" /\ lastPub.run = m
                /\ lastPub.msg.Error = PlaybookNotFound.err /\ pc'[m] # "remove")
               => (pc'[m] = "done" /\ InventoryPath(req[m]) \notin DOMAIN fs')]_vars

\* the rules before the db_type rule hold of r
FieldsOk(r) ==
    /\ r.ID # 0
    /\ TrimSpace(r.Name) # <<>>
    /\ ParseAddrOk(r.IPAddress)
    /\ r.VMUser # "" /\ r.VMPassword # ""
    /\ r.DBUser # "" /\ r.DBPassword # "" /\ r.DBName # ""

\* C16: validateRequest accepts a db_type exactly when selectPlaybook has a
\* script for it: a decoded request whose other fields are in order passes
\* validation if and only if selectPlaybook returns a script for its db_type;
\* and no run that passed validation fails at playbook selection.
C16_ValidatorMatchesSelector ==
    [][\A m \in Msgs :
         /\ (pc[m] = "recv" /\ pc'[m] \in {"write", "publish"}
                /\ req[m].json /\ FieldsOk(req[m]))
               => (pc'[m] = "write" <=> selectPlaybook(req[m].DBType).err = "nil")
         /\ pc'[m] = "select" => selectPlaybook(req[m].DBType).err = "nil"]_vars

\* which rules of validateRequest r violates, in the order they are checked
RuleViolated(r) ==
    << r.ID = 0,
       TrimSpace(r.Name) = <<>>,
       ~ParseAddrOk(r.IPAddress),
       r.VMUser = "" \/ r.VMPassword = "",
       r.DBUser = "" \/ r.DBPassword = "" \/ r.DBName = "",
       ~EqualFold(r.DBType, PostgreSQL) >>

RuleError ==
    << "missing id", "missing name", "invalid ip_address",
       "missing vm_user or vm_password", "missing db creds or db_name",
       "unsupported db_type (validate)" >>

ViolatedRules(r) == {i \in DOMAIN RuleViolated(r) : RuleViolated(r)[i]}

\* the first rule r violates, 0 when it violates none
FirstViolated(r) ==
    IF ViolatedRules(r) = {} THEN 0
    ELSE CHOOSE i \in ViolatedRules(r) : \A j \in ViolatedRules(r) : i <= j

\* C17: a decoded request that violates no rule passes validateRequest; one
\* that violates rules gets an error status whose text is that of the first
\* rule violated, in the order id, name, ip address, vm credentials, database
\* credentials, db_type; and that text is the one published.
C17_FirstViolationWins ==
    [][\A m \in Msgs :
         /\ (pc[m] = "recv" /\ pc'[m] \in {"write", "publish"} /\ req[m].json)
               => IF FirstViolated(req[m]) = 0
                  THEN pc'[m] = "write"
                  ELSE /\ pc'[m] = "publish"
                       /\ st'[m].Status = "error"
                       /\ st'[m].Error = RuleError[FirstViolated(req[m])]
                       /\ st'[m].ID = req[m].ID /\ st'[m].Name = req[m].Name
         /\ (pc[m] = "publish" /\ nOk'[m] = nOk[m] + 1)
               => (lastPub'.run = m /\ lastPub'.msg.Error = st[m].Error)]_vars

\* a request that violates two rules or more, the id rule not among them, was
\* answered with the error of the first of them
C17_Witness ==
    \E m \in Msgs :
        /\ pc[m] = "done"
        /\ req[m].json
        /\ Cardinality(ViolatedRules(req[m])) >= 2
        /\ FirstViolated(req[m]) >= 2
        /\ lastPub.run = m
        /\ lastPub.msg.Error = RuleError[FirstViolated(req[m])]

\* the one call of nc.Publish for m failed
PublishFailed(m) == nPub[m] = 1 /\ nOk[m] = 0

\* C18: nc.Publish is called at most once for a run; a call that fails leaves
\* the run where a call that succeeds leaves it (at the deferred removal when
\* an inventory is held, returned otherwise), changes no file and does not end
\* the worker; the removal that follows leaves no file at the path; and once
\* the run has returned the worker can take its next pending message (when
\* it is not already busy with a later one).
C18_PublishFailureIgnored ==
    [][\A m \in Msgs :
         /\ nPub'[m] <= 1
         /\ (pc[m] = "publish" /\ nPub'[m] = nPub[m] + 1 /\ nOk'[m] = nOk[m])
               => /\ pc'[m] = IF inv[m] # NoPath THEN "remove" ELSE "done"
                  /\ main' = main
                  /\ inv' = inv /\ fs' = fs /\ lastPub' = lastPub
         /\ (PublishFailed(m) /\ pc[m] = "remove" /\ pc'[m] = "done")
               => inv[m] \notin DOMAIN fs'
         /\ (PublishFailed(m) /\ pc[m] = "done"
                /\ main[owner[m]] = "ready" /\ queue[owner[m]] # <<>>
                /\ \A k \in Msgs \ {m} : owner[k] = owner[m] => pc[k] \notin InFlight)
               => ENABLED Dispatch(owner[m])]_vars

\* the publish of a valid request's status failed, the run returned with its
\* inventory removed, and the worker has served the next message
C18_Witness ==
    \E m, k \in Msgs :
        /\ m < k
        /\ owner[k] = owner[m]
        /\ pc[m] = "done" /\ PublishFailed(m)
        /\ req[m].json /\ validateRequest(req[m]) = "nil"
        /\ InventoryPath(req[m]) \notin DOMAIN fs
        /\ pc[k] = "done" /\ nOk[k] = 1 /\ lastPub.run = k

\* C19: log.Fatalf ends a worker process only when the initial connection to
\* the bus fails: a worker that becomes "fatal" was at nats.Connect.
C19_OnlyConnectIsFatal ==
    [][\A w \in Workers :
         (main[w] # "fatal" /\ main'[w] = "fatal") => main[w] = "start"]_vars

\* C20: while the child process of a run is executing, the inventory file
\* whose path it was given exists and holds the line that run wrote.
C20_ChildSeesOwnInventory ==
    \A m \in Msgs :
        child[m] = "running" =>
            /\ wrote[m] \in DOMAIN fs
            /\ fs[wrote[m]].line = InventoryLine(req[m])
            /\ fs[wrote[m]].by = m

====
